---- MODULE Spec2Model ----
(***************************************************************************)
(* Arcball rotation controller (src/src/RotationController.js).            *)
(*                                                                         *)
(* Number representation.  The controller computes with IEEE doubles; the  *)
(* model computes exactly, on inputs for which every intermediate value is *)
(* exactly representable:                                                  *)
(*   - screen coordinates, velocities and vector components are integers;  *)
(*   - an angle is an integer count of half degrees (pi = 360 units), so   *)
(*     that one sixtieth of a quarter turn is a whole number of units;     *)
(*   - a quaternion is kept in polar form.  Every quaternion the model     *)
(*     reaches is a monomial  m * (cos H + j sin H)        (f = 0)  or     *)
(*                        i * m * (cos H + j sin H)        (f = 1),        *)
(*     i.e. (x,y,z,w) = (0, m sin H, 0, m cos H) resp.                     *)
(*     (m cos H, 0, m sin H, 0), where H = h quarter degrees and the       *)
(*     magnitude m is the product of cos(r quarter degrees) over the       *)
(*     members r of the bag s.  s is empty exactly for a unit quaternion.  *)
(***************************************************************************)
EXTENDS Integers, Sequences, FiniteSets, Bags, TLC

(* Bounds of Spec: input operations (everything but timer ticks) and timer *)
(* ticks in one run.                                                       *)
MaxOps == 3
MaxTicks == 2

(* Bounds of SpecMomentum: input operations, and timer ticks, enough for   *)
(* interval timers to run to their end and beyond.                         *)
MomentumOps == 1
MomentumTicks == 130

(* Bounds of SpecRender: input operations, and timer ticks, enough for one *)
(* interval timer to run to its end after a drag.                          *)
RenderOps == 2
RenderTicks == 63

(* Bound of SpecProjection: calls of reshape and of the ball projections. *)
ProjectionOps == 2

(* this.rotationTimer = null *)
null == 0

(* this.kRotationRate = 1.0 / 30.0 and this.kRotationDecelerationRate =    *)
(* 1.0 / 60.0, each kept as its denominator.                               *)
kRotationRateDenominator == 30
kRotationDecelerationRateDenominator == 60

(* this.ballCenter = {x: 0, y: 0}; this.ballRadius = 1.0 *)
ballCenter == [x |-> 0, y |-> 0]
ballRadius == 1

(* Quarter degrees in a full turn of the half angle. *)
Turn == 4 * 360

(* Math.PI in angle units. *)
MathPI == 2 * 180

----------------------------------------------------------------------------
(* Numbers *)

Max(a, b) == IF a >= b THEN a ELSE b
Min(a, b) == IF a <= b THEN a ELSE b

(* Math.sqrt on the perfect squares the inputs produce, by bisection:      *)
(* the root of n lies in lo..hi.                                           *)
RECURSIVE SqrtBetween(_, _, _)
SqrtBetween(n, lo, hi) ==
  IF lo = hi THEN lo
  ELSE LET mid == (lo + hi + 1) \div 2
       IN IF mid * mid <= n THEN SqrtBetween(n, mid, hi)
                            ELSE SqrtBetween(n, lo, mid - 1)

MathSqrt(n) == SqrtBetween(n, 0, Min(n, 46340))

(* Math.acos on the dot products of the model's unit (or zero) vectors,    *)
(* in angle units.                                                         *)
MathAcos(d) ==
  CASE d = 1  -> 0
    [] d = 0  -> MathPI \div 2
    [] d = -1 -> MathPI

(* THREE.MathUtils.degToRad: degrees to angle units. *)
degToRad(degrees) == 2 * degrees

----------------------------------------------------------------------------
(* THREE.Vector3 *)

Vector3(x, y, z) == [x |-> x, y |-> y, z |-> z]

dot(a, b) == a.x * b.x + a.y * b.y + a.z * b.z

crossVectors(a, b) ==
  Vector3(a.y * b.z - a.z * b.y, a.z * b.x - a.x * b.z, a.x * b.y - a.y * b.x)

length(v) == MathSqrt(v.x * v.x + v.y * v.y + v.z * v.z)

normalize(v) == Vector3(v.x \div length(v), v.y \div length(v), v.z \div length(v))

----------------------------------------------------------------------------
(* THREE.Quaternion, in polar form *)

Quaternion(f, h, s) == [f |-> f, h |-> h % Turn, s |-> s]

(* new THREE.Quaternion(): the identity (0, 0, 0, 1). *)
Identity == Quaternion(0, 0, EmptyBag)

(* The real number cos(h quarter degrees) as a quaternion: its sign goes   *)
(* into the phase (-1 = cos 180 + j sin 180), its magnitude into the bag.  *)
RealCos(h) ==
  LET a == h % Turn
      r == Min(a, Turn - a)
      neg == r > Turn \div 4
      red == IF neg THEN Turn \div 2 - r ELSE r
  IN Quaternion(0, IF neg THEN Turn \div 2 ELSE 0,
                IF red = 0 THEN EmptyBag ELSE SetToBag({red}))

(* Quaternion.setFromAxisAngle(axis, angle):                               *)
(*   x = axis.x sin(angle/2), y = axis.y sin(angle/2),                     *)
(*   z = axis.z sin(angle/2), w = cos(angle/2).                            *)
(* The axis is used as given; nothing normalizes it here.                  *)
setFromAxisAngle(axis, angle) ==
  LET h == angle % Turn
  IN CASE axis.x = 0 /\ axis.z = 0 /\ axis.y # 0 /\ axis.y * axis.y = 1 ->
            (* cos + j (+-sin) *)
            Quaternion(0, axis.y * angle, EmptyBag)
       [] axis.x = 0 /\ axis.y = 0 /\ axis.z = 0 ->
            (* (0, 0, 0, cos(angle/2)) *)
            RealCos(h)
       [] axis.y = 0 /\ axis.x * axis.x + axis.z * axis.z = 1 /\ h % (Turn \div 2) = 0 ->
            (* sin = 0: (0, 0, 0, +-1) *)
            Quaternion(0, h, EmptyBag)
       [] axis.y = 0 /\ axis.x * axis.x + axis.z * axis.z = 1
                     /\ h % (Turn \div 2) = Turn \div 4 ->
            (* cos = 0: +-(axis.x i + axis.z k) = i (+-(axis.x + axis.z j)) *)
            Quaternion(1,
                       (CASE axis.x = 1  -> 0
                          [] axis.z = 1  -> Turn \div 4
                          [] axis.x = -1 -> Turn \div 2
                          [] axis.z = -1 -> 3 * (Turn \div 4))
                       + (IF h = Turn \div 4 THEN 0 ELSE Turn \div 2),
                       EmptyBag)

(* Quaternion.multiplyQuaternions(a, b) = a b (Hamilton product).  With    *)
(* a = A + i B, b = C + i D (A, B, C, D complex in j):                     *)
(*   a b = (A C - conj(B) D) + i (conj(A) D + B C).                        *)
multiplyQuaternions(a, b) ==
  Quaternion((a.f + b.f) % 2,
             CASE a.f = 0 /\ b.f = 0 -> a.h + b.h
               [] a.f = 0 /\ b.f = 1 -> b.h - a.h + Turn
               [] a.f = 1 /\ b.f = 0 -> a.h + b.h
               [] a.f = 1 /\ b.f = 1 -> b.h - a.h + Turn + Turn \div 2,
             a.s (+) b.s)

(* Norm 1. *)
IsUnit(q) == q.s = EmptyBag

----------------------------------------------------------------------------
(* State *)

VARIABLES
  viewBounds,           \* this.viewBounds
  startVector,          \* this.startVector
  isDragging,           \* this.isDragging
  rotationTimer,        \* this.rotationTimer: a timer id, or null
  quaternion,           \* this.quaternion: the current orientation
  quaternionTouchDown,  \* this.quaternionTouchDown: the drag-start snapshot
  angleOfRotation,      \* this.angleOfRotation
  axisOfRotation,       \* this.axisOfRotation
  onRender,             \* this.onRender is set (TRUE) or null (FALSE)
  modelQuaternion,      \* this.model.quaternion: the target's orientation
  timers,               \* the host's live interval timers: id -> anglePackage
  nextTimerId,          \* the id the next setInterval returns
  budget,               \* the run's bounds on input operations and ticks
  ops,                  \* number of input operations so far
  ticks,                \* number of timer ticks so far
  lastOp,               \* the operation (and branch) of the last step
  lastTick,             \* which invocation of its timer the last tick was
  renderCalls,          \* onRender() calls made by the last step
  cancelled,            \* beginDrag/stopDrag returned, no momentum started since
  qAtBeginDrag,         \* the target's orientation when beginDrag was last called
  dragOnly,             \* only updateDrag calls have followed the last beginDrag
  ballLocation          \* what the ball projections last returned to a caller

vars == <<viewBounds, startVector, isDragging, rotationTimer, quaternion,
          quaternionTouchDown, angleOfRotation, axisOfRotation, onRender,
          modelQuaternion, timers, nextTimerId, budget, ops, ticks, lastOp,
          lastTick, renderCalls, cancelled, qAtBeginDrag, dragOnly, ballLocation>>

(* canvas.getBoundingClientRect() at construction, and the bounds reshape  *)
(* is called with.                                                         *)
CanvasRect == [width |-> 800, height |-> 600]
ViewBoundsSet == {CanvasRect, [width |-> 400, height |-> 300]}

(* Screen points of a viewport: left edge, centre, right edge, and a point *)
(* one viewport width right of the right edge, all at half height.         *)
ScreenLocations(vb) ==
  {[x |-> k * (vb.width \div 2), y |-> vb.height \div 2] : k \in {0, 1, 2, 4}}

(* Release velocities (pixels per second): none, and the ones that carry   *)
(* the release point half a viewport or a whole viewport to the right in   *)
(* one kRotationRate.                                                      *)
Velocities(vb) ==
  {[x |-> k * kRotationRateDenominator * (vb.width \div 2), y |-> 0] : k \in {0, 1, 2}}

(* Viewports the projections are called in: landscape, portrait, square.  *)
ProjectionViewBounds ==
  {CanvasRect, [width |-> 600, height |-> 800], [width |-> 400, height |-> 400]}

(* Screen points the projections are called with: a grid of quarter        *)
(* viewport steps that reaches half a viewport beyond every edge.          *)
ProjectionLocations(vb) ==
  {[x |-> i * (vb.width \div 4), y |-> j * (vb.height \div 4)] :
     i \in {-2, 0, 1, 2, 3, 4, 6}, j \in {-2, 0, 1, 2, 3, 4, 6}}

(* Arguments of the yaw nudges, and of the pitch and roll nudges. *)
YawDegrees == {10}
HalfTurnDegrees == {180}

(* Arguments of setRotationEuler. *)
EulerDegrees == {<<0, 0, 0>>, <<180, 90, 0>>}

(* Unit orientations the target may have at construction. *)
InitialOrientations == {Identity, Quaternion(1, 90, EmptyBag)}

----------------------------------------------------------------------------
(* Coordinate mapping *)

locationInBallCoordinates(screenLocation, vb) ==
  LET ballBBoxSizeScreenCoordinates == Max(vb.width, vb.height)
      x == ((((2 * (screenLocation.x - 0)) \div vb.width) - 1) * vb.width)
              \div ballBBoxSizeScreenCoordinates
      y == ((((2 * (screenLocation.y - 0)) \div vb.height) - 1) * vb.height)
              \div ballBBoxSizeScreenCoordinates
  IN [x |-> x, y |-> y * (-1)]

ballLocationInCameraSpaceXYPlane(screenLocation, vb) ==
  LET loc == locationInBallCoordinates(screenLocation, vb)
      ballLocation_x == (loc.x - ballCenter.x) \div ballRadius
      ballLocation_y == (loc.y - ballCenter.y) \div ballRadius
      magnitude == ballLocation_x * ballLocation_x + ballLocation_y * ballLocation_y
  IN IF magnitude > 1
       THEN Vector3(ballLocation_x \div MathSqrt(magnitude),
                    ballLocation_y \div MathSqrt(magnitude), 0)
       ELSE Vector3(ballLocation_x, ballLocation_y, MathSqrt(1 - magnitude))

(* The projections for arbitrary screen points.  Their coordinates are not *)
(* integers, so a ball vector is kept exactly as three signed square       *)
(* roots over one denominator: the component c stands for                  *)
(* c.sgn * sqrt(c.sq / den).                                               *)
Sign(n) == IF n > 0 THEN 1 ELSE IF n < 0 THEN -1 ELSE 0

Root(sgn, sq) == [sgn |-> IF sq = 0 THEN 0 ELSE sgn, sq |-> sq]

(* locationInBallCoordinates: ((2 x / width) - 1) * (width / size) is      *)
(* (2 x - width) / size, and the flipped y is -(2 y - height) / size; both *)
(* are kept as numerators over size = ballBBoxSizeScreenCoordinates.       *)
locationInBallCoordinatesExact(screenLocation, vb) ==
  LET ballBBoxSizeScreenCoordinates == Max(vb.width, vb.height)
  IN [x |-> 2 * (screenLocation.x - 0) - vb.width,
      y |-> (2 * (screenLocation.y - 0) - vb.height) * (-1),
      den |-> ballBBoxSizeScreenCoordinates]

(* ballLocationInCameraSpaceXYPlane.  With X and Y the numerators of the   *)
(* ball coordinates over size, magnitude is (X^2 + Y^2) / size^2; scaling  *)
(* by 1 / sqrt(magnitude) turns X / size into X / sqrt(X^2 + Y^2).         *)
ballLocationInCameraSpaceXYPlaneExact(screenLocation, vb) ==
  LET loc == locationInBallCoordinatesExact(screenLocation, vb)
      ballLocation_x == (loc.x - ballCenter.x * loc.den) \div ballRadius
      ballLocation_y == (loc.y - ballCenter.y * loc.den) \div ballRadius
      magnitude == ballLocation_x * ballLocation_x + ballLocation_y * ballLocation_y
  IN IF magnitude > loc.den * loc.den
       THEN [x |-> Root(Sign(ballLocation_x), ballLocation_x * ballLocation_x),
             y |-> Root(Sign(ballLocation_y), ballLocation_y * ballLocation_y),
             z |-> Root(0, 0),
             den |-> magnitude]
       ELSE [x |-> Root(Sign(ballLocation_x), ballLocation_x * ballLocation_x),
             y |-> Root(Sign(ballLocation_y), ballLocation_y * ballLocation_y),
             z |-> Root(1, loc.den * loc.den - magnitude),
             den |-> loc.den * loc.den]

(* Variant of the XZ projection that keeps a third coordinate outside the  *)
(* ball.                                                                   *)
ballLocationInCameraSpaceXZPlaneOffEquator(screenLocation, vb) ==
  LET loc == locationInBallCoordinatesExact(screenLocation, vb)
      ballLocation_x == (loc.x - ballCenter.x * loc.den) \div ballRadius
      ballLocation_z == (loc.y - ballCenter.y * loc.den) \div ballRadius
      magnitude == ballLocation_x * ballLocation_x + ballLocation_z * ballLocation_z
  IN IF magnitude > loc.den * loc.den
       THEN [x |-> Root(Sign(ballLocation_x), ballLocation_x * ballLocation_x),
             y |-> Root(-1, magnitude - loc.den * loc.den),
             z |-> Root(Sign(ballLocation_z), ballLocation_z * ballLocation_z),
             den |-> magnitude]
       ELSE [x |-> Root(Sign(ballLocation_x), ballLocation_x * ballLocation_x),
             y |-> Root(-1, loc.den * loc.den - magnitude),
             z |-> Root(Sign(ballLocation_z), ballLocation_z * ballLocation_z),
             den |-> loc.den * loc.den]

(* ballLocationInCameraSpaceXZPlane *)
ballLocationInCameraSpaceXZPlane(screenLocation, vb) ==
  LET loc == locationInBallCoordinatesExact(screenLocation, vb)
      ballLocation_x == (loc.x - ballCenter.x * loc.den) \div ballRadius
      ballLocation_z == (loc.y - ballCenter.y * loc.den) \div ballRadius
      magnitude == ballLocation_x * ballLocation_x + ballLocation_z * ballLocation_z
  IN IF magnitude > loc.den * loc.den
       THEN [x |-> Root(Sign(ballLocation_x), ballLocation_x * ballLocation_x),
             y |-> Root(0, 0),
             z |-> Root(Sign(ballLocation_z), ballLocation_z * ballLocation_z),
             den |-> magnitude]
       ELSE [x |-> Root(Sign(ballLocation_x), ballLocation_x * ballLocation_x),
             y |-> Root(-1, loc.den * loc.den - magnitude),
             z |-> Root(Sign(ballLocation_z), ballLocation_z * ballLocation_z),
             den |-> loc.den * loc.den]

----------------------------------------------------------------------------
(* Host timers *)

(* clearInterval(id): the timer stops firing; unknown ids are ignored. *)
clearInterval(id) == [t \in DOMAIN timers \ {id} |-> timers[t]]

(* setInterval(() => this.rotationTimerHandler(anglePackage), ...) *)
setInterval(id, anglePackage) ==
  [t \in DOMAIN timers \cup {id} |-> IF t = id THEN anglePackage ELSE timers[t]]

(* isCurrentlyDragging() *)
isCurrentlyDragging == isDragging \/ rotationTimer # null

----------------------------------------------------------------------------
(* Construction *)

Constructed ==
  /\ viewBounds = CanvasRect
  /\ startVector = Vector3(0, 0, 0)
  /\ isDragging = FALSE
  /\ rotationTimer = null
  /\ modelQuaternion \in InitialOrientations
  /\ quaternion = modelQuaternion
  /\ quaternionTouchDown = modelQuaternion
  /\ angleOfRotation = 0
  /\ axisOfRotation = Vector3(0, 0, 0)
  /\ timers = << >>
  /\ nextTimerId = 1
  /\ ops = 0
  /\ ticks = 0
  /\ lastOp = "constructor"
  /\ lastTick = 0
  /\ renderCalls = 0
  /\ cancelled = FALSE
  /\ qAtBeginDrag = modelQuaternion
  /\ dragOnly = FALSE
  /\ ballLocation = << >>

Init ==
  /\ Constructed
  /\ onRender = TRUE
  /\ budget = [ops |-> MaxOps, ticks |-> MaxTicks]

InitMomentum ==
  /\ Constructed
  /\ onRender \in BOOLEAN
  /\ budget = [ops |-> MomentumOps, ticks |-> MomentumTicks]

(* As InitMomentum, with the render trigger configured. *)
InitMomentumLive ==
  /\ Constructed
  /\ onRender = TRUE
  /\ budget = [ops |-> MomentumOps, ticks |-> MomentumTicks]

InitRender ==
  /\ Constructed
  /\ onRender \in BOOLEAN
  /\ budget = [ops |-> RenderOps, ticks |-> RenderTicks]

(* Variant of the bookkeeping that calls this.onRender() without testing   *)
(* that it is set.                                                         *)
CalledWithoutGuard(op, rendered) ==
  /\ ops < budget.ops
  /\ ops' = ops + 1
  /\ UNCHANGED <<budget, ticks>>
  /\ lastOp' = op
  /\ lastTick' = 0
  /\ renderCalls' = IF rendered THEN 1 ELSE 0
  /\ UNCHANGED onRender

InitProjection ==
  /\ Constructed
  /\ onRender = FALSE
  /\ budget = [ops |-> ProjectionOps, ticks |-> 0]

(* Bookkeeping of a call from outside: it is counted, and it reaches       *)
(* "if (this.onRender) this.onRender()" or not.                            *)
Called(op, rendered) ==
  /\ ops < budget.ops
  /\ ops' = ops + 1
  /\ UNCHANGED <<budget, ticks>>
  /\ lastOp' = op
  /\ lastTick' = 0
  /\ renderCalls' = IF rendered /\ onRender THEN 1 ELSE 0
  /\ UNCHANGED onRender

(* Bookkeeping of an input operation: a call that returns no projection. *)
Input(op, rendered) ==
  /\ Called(op, rendered)
  /\ UNCHANGED ballLocation

----------------------------------------------------------------------------
(* Operations *)

(* reshape(viewBounds) *)
reshape(vb) ==
  /\ Input("reshape", FALSE)
  /\ viewBounds' = vb
  /\ dragOnly' = FALSE
  /\ UNCHANGED <<startVector, isDragging, rotationTimer, quaternion,
                 quaternionTouchDown, angleOfRotation, axisOfRotation,
                 modelQuaternion, timers, nextTimerId, cancelled, qAtBeginDrag>>

(* Variant of beginDrag that forgets to cancel the momentum timer. *)
beginDragKeepingTimer(screenLocation) ==
  /\ Input("beginDrag", FALSE)
  /\ isDragging' = TRUE
  /\ startVector' = ballLocationInCameraSpaceXYPlane(screenLocation, viewBounds)
  /\ cancelled' = TRUE
  /\ qAtBeginDrag' = modelQuaternion
  /\ dragOnly' = TRUE
  /\ UNCHANGED <<viewBounds, quaternion, quaternionTouchDown, angleOfRotation,
                 axisOfRotation, modelQuaternion, nextTimerId, timers, rotationTimer>>

(* beginDrag(screenLocation) *)
beginDrag(screenLocation) ==
  /\ Input("beginDrag", FALSE)
  /\ IF rotationTimer # null
       THEN /\ timers' = clearInterval(rotationTimer)
            /\ rotationTimer' = null
       ELSE UNCHANGED <<timers, rotationTimer>>
  /\ isDragging' = TRUE
  /\ startVector' = ballLocationInCameraSpaceXYPlane(screenLocation, viewBounds)
  /\ cancelled' = TRUE
  /\ qAtBeginDrag' = modelQuaternion
  /\ dragOnly' = TRUE
  /\ UNCHANGED <<viewBounds, quaternion, quaternionTouchDown, angleOfRotation,
                 axisOfRotation, modelQuaternion, nextTimerId>>

(* updateDrag: "if too small, skip rotation (vectors are parallel)",       *)
(* axisLength < 0.0001.                                                    *)
AxisTooSmall(axisLength) == axisLength * 10000 < 1

(* Variant of updateDrag that composes onto the current orientation, that  *)
(* is, onto the result of the update before it.                            *)
updateDragIncremental(screenLocation) ==
  LET endVector == ballLocationInCameraSpaceXYPlane(screenLocation, viewBounds)
      angle == MathAcos(Max(-1, Min(1, dot(startVector, endVector))))
      cross == crossVectors(startVector, endVector)
      axisLength == length(cross)
  IN /\ angleOfRotation' = angle
     /\ IF AxisTooSmall(axisLength)
          THEN /\ Input("updateDragSkipped", FALSE)
               /\ axisOfRotation' = cross
               /\ UNCHANGED <<quaternion, modelQuaternion>>
          ELSE LET axis == normalize(cross)
                   quaternionDrag == setFromAxisAngle(axis, angle)
                   q == multiplyQuaternions(quaternionDrag, quaternion)
               IN /\ Input("updateDrag", TRUE)
                  /\ axisOfRotation' = axis
                  /\ quaternion' = q
                  /\ modelQuaternion' = q
     /\ UNCHANGED <<viewBounds, startVector, isDragging, rotationTimer,
                    quaternionTouchDown, timers, nextTimerId, cancelled,
                    qAtBeginDrag, dragOnly>>

(* updateDrag(screenLocation) *)
updateDrag(screenLocation) ==
  LET endVector == ballLocationInCameraSpaceXYPlane(screenLocation, viewBounds)
      angle == MathAcos(Max(-1, Min(1, dot(startVector, endVector))))
      cross == crossVectors(startVector, endVector)
      axisLength == length(cross)
  IN /\ angleOfRotation' = angle
     /\ IF AxisTooSmall(axisLength)
          THEN /\ Input("updateDragSkipped", FALSE)
               /\ axisOfRotation' = cross
               /\ UNCHANGED <<quaternion, modelQuaternion>>
          ELSE LET axis == normalize(cross)
                   quaternionDrag == setFromAxisAngle(axis, angle)
                   q == multiplyQuaternions(quaternionDrag, quaternionTouchDown)
               IN /\ Input("updateDrag", TRUE)
                  /\ axisOfRotation' = axis
                  /\ quaternion' = q
                  /\ modelQuaternion' = q
     /\ UNCHANGED <<viewBounds, startVector, isDragging, rotationTimer,
                    quaternionTouchDown, timers, nextTimerId, cancelled,
                    qAtBeginDrag, dragOnly>>

(* endDrag: velocityMagnitude < 0.1 *)
VelocityTooSmall(velocityMagnitude) == velocityMagnitude * 10 < 1

(* Variant of the angle threshold that lets every release start momentum. *)
RadiansNeverTooSmall(radians) == FALSE

(* endDrag: radians < 0.001.  One angle unit is pi/360 = 0.0087 rad, so    *)
(* 0.001 rad is 0.1146 units.                                              *)
RadiansTooSmall(radians) == radians * 10000 < 1146

(* endDrag(velocityInView, locationInView) *)
endDrag(velocityInView, locationInView) ==
  LET velocityMagnitude ==
        MathSqrt(velocityInView.x * velocityInView.x + velocityInView.y * velocityInView.y)
      xx == velocityInView.x \div kRotationRateDenominator + locationInView.x
      yy == velocityInView.y \div kRotationRateDenominator + locationInView.y
      screenLocationTo == [x |-> xx, y |-> yy]
      a == ballLocationInCameraSpaceXYPlane(locationInView, viewBounds)
      b == ballLocationInCameraSpaceXYPlane(screenLocationTo, viewBounds)
      radians == MathAcos(Max(-1, Min(1, dot(a, b))))
      anglePackage == [radiansBegin |-> radians, radians |-> radians, ticks |-> 0]
  IN /\ isDragging' = FALSE
     /\ quaternionTouchDown' = quaternion
     /\ dragOnly' = FALSE
     /\ IF VelocityTooSmall(velocityMagnitude)
          THEN /\ Input("endDragSlow", FALSE)
               /\ UNCHANGED <<rotationTimer, timers, nextTimerId, cancelled>>
          ELSE IF RadiansTooSmall(radians)
          THEN /\ Input("endDragTiny", FALSE)
               /\ UNCHANGED <<rotationTimer, timers, nextTimerId, cancelled>>
          ELSE /\ Input("endDragMomentum", FALSE)
               /\ rotationTimer' = nextTimerId
               /\ timers' = setInterval(nextTimerId, anglePackage)
               /\ nextTimerId' = nextTimerId + 1
               /\ cancelled' = FALSE
     /\ UNCHANGED <<viewBounds, startVector, quaternion, angleOfRotation,
                    axisOfRotation, modelQuaternion, qAtBeginDrag>>

(* Variant of the terminal test that also stops at exactly 0. *)
MomentumSpentAtZero(radians) == radians <= 0

(* rotationTimerHandler: if (radians < 0) *)
MomentumSpent(radians) == radians < 0

(* Variant of the decay that subtracts nothing. *)
DecayedAngleWithoutDecay(radians, radiansBegin) == radians

(* rotationTimerHandler: radians - this.kRotationDecelerationRate * radiansBegin *)
DecayedAngle(radians, radiansBegin) ==
  radians - radiansBegin \div kRotationDecelerationRateDenominator

(* rotationTimerHandler, else branch: the orientation the tick of timer t  *)
(* writes to this.quaternion, the target and the snapshot.                 *)
MomentumQuaternion(t) ==
  LET updated == DecayedAngle(timers[t].radians, timers[t].radiansBegin)
      quaternionDrag == setFromAxisAngle(axisOfRotation, updated)
  IN multiplyQuaternions(quaternionDrag, quaternionTouchDown)

(* rotationTimerHandler(anglePackage), fired by the live interval timer t *)
rotationTimerHandler(t) ==
  LET anglePackage == timers[t]
      radiansBegin == anglePackage.radiansBegin
      radians == anglePackage.radians
      n == anglePackage.ticks + 1
  IN /\ t \in DOMAIN timers
     /\ ticks < budget.ticks
     /\ ticks' = ticks + 1
     /\ lastTick' = n
     /\ IF MomentumSpent(radians)
          THEN /\ timers' = [u \in DOMAIN clearInterval(rotationTimer) |->
                              IF u = t THEN [anglePackage EXCEPT !.ticks = n]
                                       ELSE timers[u]]
               /\ rotationTimer' = null
               /\ lastOp' = "tickTerminal"
               /\ renderCalls' = 0
               /\ UNCHANGED <<quaternion, modelQuaternion, quaternionTouchDown>>
          ELSE LET updated == DecayedAngle(radians, radiansBegin)
                   q == MomentumQuaternion(t)
               IN /\ timers' = [timers EXCEPT ![t] =
                                  [anglePackage EXCEPT !.radians = updated, !.ticks = n]]
                  /\ quaternion' = q
                  /\ modelQuaternion' = q
                  /\ quaternionTouchDown' = q
                  /\ lastOp' = "tick"
                  /\ renderCalls' = IF onRender THEN 1 ELSE 0
                  /\ UNCHANGED rotationTimer
     /\ dragOnly' = FALSE
     /\ UNCHANGED <<viewBounds, startVector, isDragging, angleOfRotation,
                    axisOfRotation, onRender, nextTimerId, budget, ops,
                    cancelled, qAtBeginDrag, ballLocation>>

(* stopDrag() *)
stopDrag ==
  /\ Input("stopDrag", FALSE)
  /\ isDragging' = FALSE
  /\ IF rotationTimer # null
       THEN /\ timers' = clearInterval(rotationTimer)
            /\ rotationTimer' = null
       ELSE UNCHANGED <<timers, rotationTimer>>
  /\ startVector' = Vector3(0, 0, 0)
  /\ cancelled' = TRUE
  /\ dragOnly' = FALSE
  /\ UNCHANGED <<viewBounds, quaternion, quaternionTouchDown, angleOfRotation,
                 axisOfRotation, modelQuaternion, nextTimerId, qAtBeginDrag>>

(* A caller's ballLocationInCameraSpaceXYPlane(screenLocation): a pure     *)
(* function of the argument and this.viewBounds.                           *)
projectXYPlane(screenLocation) ==
  /\ Called("ballLocationInCameraSpaceXYPlane", FALSE)
  /\ ballLocation' =
       [plane |-> "XY", screenLocation |-> screenLocation, viewBounds |-> viewBounds,
        vector |-> ballLocationInCameraSpaceXYPlaneExact(screenLocation, viewBounds)]
  /\ UNCHANGED <<viewBounds, startVector, isDragging, rotationTimer, quaternion,
                 quaternionTouchDown, angleOfRotation, axisOfRotation,
                 modelQuaternion, timers, nextTimerId, cancelled, qAtBeginDrag,
                 dragOnly>>

(* A caller's ballLocationInCameraSpaceXZPlane(screenLocation) *)
projectXZPlane(screenLocation) ==
  /\ Called("ballLocationInCameraSpaceXZPlane", FALSE)
  /\ ballLocation' =
       [plane |-> "XZ", screenLocation |-> screenLocation, viewBounds |-> viewBounds,
        vector |-> ballLocationInCameraSpaceXZPlane(screenLocation, viewBounds)]
  /\ UNCHANGED <<viewBounds, startVector, isDragging, rotationTimer, quaternion,
                 quaternionTouchDown, angleOfRotation, axisOfRotation,
                 modelQuaternion, timers, nextTimerId, cancelled, qAtBeginDrag,
                 dragOnly>>

(* getRotationEuler(): reads this.model.quaternion into a new Euler and    *)
(* returns its angles in degrees; it writes no field and does not reach    *)
(* the render trigger.                                                     *)
getRotationEuler ==
  /\ Input("getRotationEuler", FALSE)
  /\ UNCHANGED <<viewBounds, startVector, isDragging, rotationTimer, quaternion,
                 quaternionTouchDown, angleOfRotation, axisOfRotation,
                 modelQuaternion, timers, nextTimerId, cancelled, qAtBeginDrag,
                 dragOnly>>

(* new THREE.Quaternion().setFromEuler(new THREE.Euler(x, y, z, 'XYZ')):   *)
(* the rotation about X times the rotation about Y times the one about Z.  *)
setFromEuler(x, y, z) ==
  multiplyQuaternions(setFromAxisAngle(Vector3(1, 0, 0), x),
    multiplyQuaternions(setFromAxisAngle(Vector3(0, 1, 0), y),
                        setFromAxisAngle(Vector3(0, 0, 1), z)))

(* Variant in which a nudge or setRotationEuler cancels the momentum timer. *)
OrientationOnlyCancellingMomentum ==
  /\ dragOnly' = FALSE
  /\ timers' = clearInterval(rotationTimer)
  /\ rotationTimer' = null
  /\ UNCHANGED <<viewBounds, startVector, isDragging, angleOfRotation,
                 axisOfRotation, nextTimerId, cancelled, qAtBeginDrag>>

(* The state every nudge and setRotationEuler leave alone. *)
OrientationOnly ==
  /\ dragOnly' = FALSE
  /\ UNCHANGED <<viewBounds, startVector, isDragging, rotationTimer, angleOfRotation,
                 axisOfRotation, timers, nextTimerId, cancelled, qAtBeginDrag>>

(* Variant of setRotationEuler that writes the target and the snapshot     *)
(* but not the controller's current orientation.                           *)
setRotationEulerTargetOnly(x, y, z) ==
  LET q == setFromEuler(degToRad(x), degToRad(y), degToRad(z))
  IN /\ Input("setRotationEuler", TRUE)
     /\ modelQuaternion' = q
     /\ quaternionTouchDown' = q
     /\ UNCHANGED quaternion
     /\ OrientationOnly

(* setRotationEuler(x, y, z) *)
setRotationEuler(x, y, z) ==
  LET q == setFromEuler(degToRad(x), degToRad(y), degToRad(z))
  IN /\ Input("setRotationEuler", TRUE)
     /\ modelQuaternion' = q
     /\ quaternion' = q
     /\ quaternionTouchDown' = q
     /\ OrientationOnly

(* The orientation model.quaternion gets in                                *)
(*   rotationQuaternion.setFromAxisAngle(axis, angle);                     *)
(*   this.model.quaternion.multiplyQuaternions(rotationQuaternion,         *)
(*                                             this.model.quaternion)      *)
rotateClockwiseQuaternion(q, degrees) ==
  multiplyQuaternions(setFromAxisAngle(Vector3(0, 1, 0), degToRad(-degrees)), q)

(* Variant of rotateCounterclockwise that multiplies on the right. *)
rotateCounterclockwiseOnTheRight(q, degrees) ==
  multiplyQuaternions(q, setFromAxisAngle(Vector3(0, 1, 0), degToRad(degrees)))

rotateCounterclockwiseQuaternion(q, degrees) ==
  multiplyQuaternions(setFromAxisAngle(Vector3(0, 1, 0), degToRad(degrees)), q)

nudgePitchUpQuaternion(q, degrees) ==
  multiplyQuaternions(setFromAxisAngle(Vector3(1, 0, 0), degToRad(degrees)), q)

nudgePitchDownQuaternion(q, degrees) ==
  multiplyQuaternions(setFromAxisAngle(Vector3(1, 0, 0), degToRad(-degrees)), q)

nudgeRollQuaternion(q, degrees) ==
  multiplyQuaternions(setFromAxisAngle(Vector3(0, 0, 1), degToRad(degrees)), q)

(* Variant of the nudges' tail that forgets the drag-start snapshot. *)
NudgeWithoutSnapshot(op, q) ==
  /\ Input(op, TRUE)
  /\ modelQuaternion' = q
  /\ quaternion' = q
  /\ UNCHANGED quaternionTouchDown
  /\ OrientationOnly

(* The tail every nudge shares: copy into both controller slots, render. *)
Nudge(op, q) ==
  /\ Input(op, TRUE)
  /\ modelQuaternion' = q
  /\ quaternion' = q
  /\ quaternionTouchDown' = q
  /\ OrientationOnly

rotateClockwise(degrees) ==
  Nudge("rotateClockwise", rotateClockwiseQuaternion(modelQuaternion, degrees))

rotateCounterclockwise(degrees) ==
  Nudge("rotateCounterclockwise", rotateCounterclockwiseQuaternion(modelQuaternion, degrees))

nudgePitchUp(degrees) ==
  Nudge("nudgePitchUp", nudgePitchUpQuaternion(modelQuaternion, degrees))

nudgePitchDown(degrees) ==
  Nudge("nudgePitchDown", nudgePitchDownQuaternion(modelQuaternion, degrees))

nudgeRoll(degrees) ==
  Nudge("nudgeRoll", nudgeRollQuaternion(modelQuaternion, degrees))

----------------------------------------------------------------------------
(* Specification *)

Next ==
  \/ \E vb \in ViewBoundsSet : reshape(vb)
  \/ \E p \in ScreenLocations(viewBounds) : beginDrag(p)
  \/ \E p \in ScreenLocations(viewBounds) : updateDrag(p)
  \/ \E v \in Velocities(viewBounds), p \in ScreenLocations(viewBounds) : endDrag(v, p)
  \/ \E t \in DOMAIN timers : rotationTimerHandler(t)
  \/ stopDrag
  \/ getRotationEuler
  \/ \E e \in EulerDegrees : setRotationEuler(e[1], e[2], e[3])
  \/ \E d \in YawDegrees : rotateClockwise(d)
  \/ \E d \in YawDegrees : rotateCounterclockwise(d)
  \/ \E d \in HalfTurnDegrees : nudgePitchUp(d)
  \/ \E d \in HalfTurnDegrees : nudgePitchDown(d)
  \/ \E d \in HalfTurnDegrees : nudgeRoll(d)

Spec == Init /\ [][Next]_vars

SpecMomentum == InitMomentum /\ [][Next]_vars

(* SpecMomentum, render trigger configured, with the least the host's      *)
(* scheduling gives: as long as an                                         *)
(* interval timer is live, some live timer fires again.                    *)
SpecMomentumLive ==
  /\ InitMomentumLive
  /\ [][Next]_vars
  /\ WF_vars(\E t \in DOMAIN timers : rotationTimerHandler(t))

SpecRender == InitRender /\ [][Next]_vars

(* The ball projections as a caller uses them: in any viewport reshape has *)
(* set, on any screen point.                                               *)
NextProjection ==
  \/ \E vb \in ProjectionViewBounds : reshape(vb)
  \/ \E p \in ProjectionLocations(viewBounds) : projectXYPlane(p)
  \/ \E p \in ProjectionLocations(viewBounds) : projectXZPlane(p)

SpecProjection == InitProjection /\ [][NextProjection]_vars

----------------------------------------------------------------------------
(* Properties *)

(* C1: the drag flag and an active momentum timer (rotationTimer not null) *)
(* are never both set.                                                     *)
C1_DragExcludesTimer == ~(isDragging /\ rotationTimer # null)

(* beginDrag has just cancelled the momentum the first operation started. *)
C1_Witness ==
  /\ lastOp = "beginDrag"
  /\ ops = 2
  /\ nextTimerId = 2
  /\ isDragging
  /\ rotationTimer = null

(* C2: at most one momentum interval timer is live at any instant. *)
C2_AtMostOneTimer == Cardinality(DOMAIN timers) <= 1

(* C3: the current orientation, the drag-start snapshot and the target's   *)
(* orientation are unit-norm quaternions in every reachable state.         *)
C3_UnitNorm ==
  /\ IsUnit(quaternion)
  /\ IsUnit(quaternionTouchDown)
  /\ IsUnit(modelQuaternion)

C5_CancellationTotal ==
  [][\A t \in DOMAIN timers :
       (cancelled /\ rotationTimerHandler(t)) =>
          UNCHANGED <<modelQuaternion, quaternion, quaternionTouchDown>>]_vars

(* C6: whenever isCurrentlyDragging() is false, no live timer's next tick  *)
(* changes the target orientation.                                         *)
C6_IdleMeansNoMutation ==
  ~isCurrentlyDragging =>
     \A t \in DOMAIN timers :
        MomentumSpent(timers[t].radians) \/ MomentumQuaternion(t) = modelQuaternion

(* The release endDrag(v, p) is below a threshold: the velocity magnitude  *)
(* is below 0.1 (of the integer velocities, the zero velocity alone: the   *)
(* squared magnitude is below 0.01), or the angle between the ball points  *)
(* of p and of p + v/30 is below 0.001 rad (0.1146 angle units).           *)
SubThresholdRelease(v, p) ==
  \/ v.x * v.x + v.y * v.y < 1
  \/ LET a == ballLocationInCameraSpaceXYPlane(p, viewBounds)
         b == ballLocationInCameraSpaceXYPlane(
                [x |-> p.x + v.x \div 30, y |-> p.y + v.y \div 30], viewBounds)
     IN 10000 * MathAcos(Max(-1, Min(1, dot(a, b)))) < 1146

(* C7 as stated: right after a sub-threshold endDrag, whatever the state   *)
(* it was called in, isCurrentlyDragging() is false.                       *)
C7_IdleAfterSlowRelease ==
  lastOp \in {"endDragSlow", "endDragTiny"} => ~isCurrentlyDragging

(* C7 as amended: a sub-threshold endDrag starts no timer and leaves       *)
(* rotationTimer and the live timers as they were, and clears the drag     *)
(* flag; so isCurrentlyDragging() is false after it exactly when no        *)
(* momentum timer was active when it was called.                           *)
C7_SlowReleaseStartsNothing ==
  [][\A v \in Velocities(viewBounds), p \in ScreenLocations(viewBounds) :
       (endDrag(v, p) /\ SubThresholdRelease(v, p)) =>
          /\ rotationTimer' = rotationTimer
          /\ timers' = timers
          /\ nextTimerId' = nextTimerId
          /\ isDragging' = FALSE
          /\ isCurrentlyDragging' <=> (rotationTimer # null)]_vars

(* A sub-threshold endDrag has returned while momentum is running. *)
C7_Witness ==
  /\ lastOp \in {"endDragSlow", "endDragTiny"}
  /\ rotationTimer # null
  /\ rotationTimer \in DOMAIN timers

(* C8: an updateDrag whose cross product with the start vector is shorter  *)
(* than 0.0001 mutates nothing: current orientation, snapshot, stored axis *)
(* and angle and the target are unchanged and the render trigger is not    *)
(* invoked.                                                                *)
C8_SkippedUpdateMutatesNothing ==
  [][\A p \in ScreenLocations(viewBounds) :
       (/\ updateDrag(p)
        /\ LET c == crossVectors(startVector,
                                 ballLocationInCameraSpaceXYPlane(p, viewBounds))
           IN 100000000 * (c.x * c.x + c.y * c.y + c.z * c.z) < 1) =>
          /\ UNCHANGED <<quaternion, quaternionTouchDown, axisOfRotation,
                         angleOfRotation, modelQuaternion, startVector>>
          /\ renderCalls' = 0]_vars

(* C9: during a drag, an updateDrag with a point that maps to the ball     *)
(* vector of the beginDrag point leaves the target at the orientation it   *)
(* had at drag start, also after earlier updateDrag calls of that drag.    *)
C9_BackToStart ==
  [][\A p \in ScreenLocations(viewBounds) :
       (/\ isDragging
        /\ dragOnly
        /\ ballLocationInCameraSpaceXYPlane(p, viewBounds) = startVector
        /\ updateDrag(p)) =>
          modelQuaternion' = qAtBeginDrag]_vars

(* Arguments the yaw pair is tried with. *)
PairDegrees == {-180, -90, -10, 0, 1, 5, 10, 45, 90, 180, 270, 360, 720}

(* C10: from every reachable orientation and for every d, the target       *)
(* orientation rotateClockwise(d) and then rotateCounterclockwise(d)       *)
(* produce is the one held before the pair; and each nudge of the pair     *)
(* leaves the current orientation and the snapshot equal to the target.    *)
C10_YawPairRestores ==
  /\ \A d \in PairDegrees :
       rotateCounterclockwiseQuaternion(
         rotateClockwiseQuaternion(modelQuaternion, d), d) = modelQuaternion
  /\ lastOp \in {"rotateClockwise", "rotateCounterclockwise"} =>
       /\ quaternion = modelQuaternion
       /\ quaternionTouchDown = modelQuaternion

(* rotateClockwise then rotateCounterclockwise, and nothing else, have run *)
(* on a new controller, and the target is back where it was constructed.   *)
C10_Witness ==
  /\ lastOp = "rotateCounterclockwise"
  /\ ops = 2
  /\ ticks = 0
  /\ modelQuaternion = qAtBeginDrag
  /\ quaternion = qAtBeginDrag
  /\ quaternionTouchDown = qAtBeginDrag

(* The render trigger is invoked once if it is configured, else not at all. *)
RenderedOnce == renderCalls' = IF onRender THEN 1 ELSE 0

(* C11: with a render trigger configured it is invoked exactly once by     *)
(* each accepted updateDrag (cross product not shorter than 0.0001), each  *)
(* non-terminal timer tick (remaining angle not below 0), each nudge and   *)
(* each setRotationEuler, and not at all by beginDrag, endDrag, stopDrag,  *)
(* reshape, getRotationEuler, a skipped updateDrag and the terminal tick;  *)
(* with no trigger configured every one of them takes its step and nothing *)
(* is invoked.                                                             *)
C11_RenderCounts ==
  [][/\ \A p \in ScreenLocations(viewBounds) :
          updateDrag(p) =>
            LET c == crossVectors(startVector,
                                  ballLocationInCameraSpaceXYPlane(p, viewBounds))
            IN IF 100000000 * (c.x * c.x + c.y * c.y + c.z * c.z) < 1
                 THEN renderCalls' = 0
                 ELSE RenderedOnce
     /\ \A t \in DOMAIN timers :
          rotationTimerHandler(t) =>
            IF timers[t].radians < 0 THEN renderCalls' = 0 ELSE RenderedOnce
     /\ \A e \in EulerDegrees : setRotationEuler(e[1], e[2], e[3]) => RenderedOnce
     /\ \A d \in YawDegrees :
          (rotateClockwise(d) \/ rotateCounterclockwise(d)) => RenderedOnce
     /\ \A d \in HalfTurnDegrees :
          (nudgePitchUp(d) \/ nudgePitchDown(d) \/ nudgeRoll(d)) => RenderedOnce
     /\ \A p \in ScreenLocations(viewBounds) : beginDrag(p) => renderCalls' = 0
     /\ \A v \in Velocities(viewBounds), p \in ScreenLocations(viewBounds) :
          endDrag(v, p) => renderCalls' = 0
     /\ \A vb \in ViewBoundsSet : reshape(vb) => renderCalls' = 0
     /\ (stopDrag \/ getRotationEuler) => renderCalls' = 0]_vars

(* The scenario of an accepted drag update: beginDrag, then an updateDrag  *)
(* that rotated the target, with the trigger configured and invoked once.  *)
C11_Witness ==
  /\ lastOp = "updateDrag"
  /\ ops = 2
  /\ onRender
  /\ renderCalls = 1
  /\ isDragging
  /\ modelQuaternion # qAtBeginDrag

(* C12: from any reachable state a stopDrag leaves the drag flag false, no *)
(* momentum timer active (rotationTimer null and no interval timer of the  *)
(* controller live) and the start vector zero, without changing the        *)
(* current orientation, the snapshot or the target; and a stopDrag that    *)
(* directly follows a stopDrag changes nothing at all.                     *)
C12_StopDragIdempotent ==
  [][stopDrag =>
       /\ isDragging' = FALSE
       /\ rotationTimer' = null
       /\ timers' = << >>
       /\ startVector' = Vector3(0, 0, 0)
       /\ UNCHANGED <<quaternion, quaternionTouchDown, modelQuaternion>>
       /\ lastOp = "stopDrag" =>
            UNCHANGED <<viewBounds, startVector, isDragging, rotationTimer,
                        quaternion, quaternionTouchDown, angleOfRotation,
                        axisOfRotation, onRender, modelQuaternion, timers,
                        nextTimerId, ballLocation>>]_vars

(* C13: whatever the screen point and the viewport, the vector a ball     *)
(* projection (XY or XZ plane) returned has length 1; its two in-plane     *)
(* coordinates are the point's ball coordinates when their squared         *)
(* magnitude is at most 1 (a point on the sphere), and when it exceeds 1   *)
(* the third coordinate (z for XY, y for XZ) is zero (on the equator).     *)
C13_UnitLength ==
  ballLocation # << >> =>
    LET v == ballLocation.vector
        vb == ballLocation.viewBounds
        size == Max(vb.width, vb.height)
        X == 2 * ballLocation.screenLocation.x - vb.width
        Y == vb.height - 2 * ballLocation.screenLocation.y
        third == IF ballLocation.plane = "XY" THEN v.z ELSE v.y
        second == IF ballLocation.plane = "XY" THEN v.y ELSE v.z
    IN /\ v.den > 0
       /\ v.x.sq + v.y.sq + v.z.sq = v.den
       /\ X * X + Y * Y > size * size => third.sq = 0
       /\ X * X + Y * Y <= size * size =>
            /\ v.den = size * size
            /\ v.x.sq = X * X /\ v.x.sgn = Sign(X)
            /\ second.sq = Y * Y /\ second.sgn = Sign(Y)

(* The XZ projection has returned for a point outside the ball's           *)
(* silhouette and off both axes: rescaled, third coordinate zero.          *)
C13_Witness ==
  /\ ballLocation # << >>
  /\ ballLocation.plane = "XZ"
  /\ ballLocation.vector.y.sq = 0
  /\ ballLocation.vector.x.sgn = 1
  /\ ballLocation.vector.z.sgn = -1
  /\ ballLocation.vector.den > Max(viewBounds.width, viewBounds.height)
                                 * Max(viewBounds.width, viewBounds.height)

(* C14: right after every beginDrag the drag-start snapshot equals the    *)
(* current orientation and the target's orientation, whatever sequence of  *)
(* operations came before.                                                 *)
C14_SnapshotAtBeginDrag ==
  lastOp = "beginDrag" =>
    /\ quaternionTouchDown = quaternion
    /\ quaternionTouchDown = modelQuaternion

(* The rotation from the ball vector from to the ball vector to (not      *)
(* parallel), composed on the left of the orientation base.                *)
DragOrientation(from, to, base) ==
  multiplyQuaternions(
    setFromAxisAngle(normalize(crossVectors(from, to)),
                     MathAcos(Max(-1, Min(1, dot(from, to))))),
    base)

(* C15: updateDrag leaves the start vector and the drag-start snapshot     *)
(* unchanged, and the orientation an accepted updateDrag(p) gives the      *)
(* controller and the target is determined by p, the start vector and the  *)
(* snapshot alone: it is the rotation from the start vector to p's ball    *)
(* vector composed onto the snapshot, whatever updateDrag calls came       *)
(* before it in the drag.                                                  *)
C15_UpdateFromFixedBase ==
  [][\A p \in ScreenLocations(viewBounds) :
       updateDrag(p) =>
         /\ UNCHANGED <<startVector, quaternionTouchDown>>
         /\ LET to == ballLocationInCameraSpaceXYPlane(p, viewBounds)
                c == crossVectors(startVector, to)
            IN 100000000 * (c.x * c.x + c.y * c.y + c.z * c.z) >= 1 =>
                 /\ modelQuaternion' = DragOrientation(startVector, to, quaternionTouchDown)
                 /\ quaternion' = modelQuaternion']_vars

(* The second updateDrag of a drag that began at the centre has turned the *)
(* target a quarter turn about the vertical axis from where the drag       *)
(* began, while the update before it had turned it elsewhere or not at all. *)
C15_Witness ==
  /\ lastOp = "updateDrag"
  /\ ops = 3
  /\ ticks = 0
  /\ dragOnly
  /\ isDragging
  /\ startVector = Vector3(0, 0, 1)
  /\ axisOfRotation = Vector3(0, 1, 0)
  /\ quaternionTouchDown = qAtBeginDrag
  /\ modelQuaternion = multiplyQuaternions(Quaternion(0, 180, EmptyBag), qAtBeginDrag)

(* A step of setRotationEuler or of one of the five nudges. *)
NudgeOrEulerSet ==
  \/ \E e \in EulerDegrees : setRotationEuler(e[1], e[2], e[3])
  \/ \E d \in YawDegrees : rotateClockwise(d) \/ rotateCounterclockwise(d)
  \/ \E d \in HalfTurnDegrees : nudgePitchUp(d) \/ nudgePitchDown(d) \/ nudgeRoll(d)

(* C16: every nudge and setRotationEuler leaves the drag flag, the         *)
(* momentum timer, the start vector and every timer's remaining angle      *)
(* unchanged, so the controller is Idle, Dragging or in Momentum after it  *)
(* as before it; and after it the current orientation, the snapshot and    *)
(* the target orientation are equal.                                       *)
C16_NudgeFrame ==
  [][NudgeOrEulerSet =>
       /\ UNCHANGED <<isDragging, rotationTimer, startVector, timers>>
       /\ isCurrentlyDragging' = isCurrentlyDragging
       /\ quaternion' = modelQuaternion'
       /\ quaternionTouchDown' = modelQuaternion']_vars

(* A roll nudge has returned while a momentum timer that has already       *)
(* ticked is still running.                                                *)
C16_Witness ==
  /\ lastOp = "nudgeRoll"
  /\ rotationTimer # null
  /\ rotationTimer \in DOMAIN timers
  /\ timers[rotationTimer].ticks >= 1
  /\ quaternion = modelQuaternion
  /\ quaternionTouchDown = modelQuaternion

(* The labels of setRotationEuler and of the five nudges. *)
NudgeOrEulerSetOps ==
  {"setRotationEuler", "rotateClockwise", "rotateCounterclockwise",
   "nudgePitchUp", "nudgePitchDown", "nudgeRoll"}

(* C17: a nudge or setRotationEuler called while momentum runs leaves the  *)
(* momentum timer running, and the non-terminal tick that follows it       *)
(* writes the tick's rotation (about the stored axis, by the timer's       *)
(* remaining angle less one sixtieth of its starting angle) composed onto  *)
(* the orientation the nudge or set wrote, to the target, the current      *)
(* orientation and the snapshot.                                           *)
C17_NudgeNotLost ==
  [][/\ NudgeOrEulerSet => UNCHANGED <<rotationTimer, timers>>
     /\ \A t \in DOMAIN timers :
          (/\ lastOp \in NudgeOrEulerSetOps
           /\ timers[t].radians >= 0
           /\ rotationTimerHandler(t)) =>
             /\ modelQuaternion' =
                  multiplyQuaternions(
                    setFromAxisAngle(axisOfRotation,
                                     timers[t].radians - timers[t].radiansBegin \div 60),
                    modelQuaternion)
             /\ quaternion' = modelQuaternion'
             /\ quaternionTouchDown' = modelQuaternion']_vars

(* Momentum was started, its timer ticked, setRotationEuler(0, 0, 0) was   *)
(* called, and the timer has ticked a second time: the target holds the    *)
(* second tick's rotation composed onto the orientation that was set, and  *)
(* nothing of the first tick.                                              *)
C17_Witness ==
  /\ lastOp = "tick"
  /\ lastTick = 2
  /\ ops = 2
  /\ ticks = 2
  /\ rotationTimer = 1
  /\ 1 \in DOMAIN timers
  /\ timers[1].ticks = 2
  /\ modelQuaternion =
       multiplyQuaternions(setFromAxisAngle(axisOfRotation, timers[1].radians),
                           setFromEuler(0, 0, 0))

(* C18: every tick that rotates the target applies an angle one sixtieth  *)
(* of the starting angle smaller than the tick before it applied, and      *)
(* never an angle below 0: the animation stops before that.                *)
C18_NoNegativeAngle ==
  [][\A t \in DOMAIN timers :
       (rotationTimerHandler(t) /\ modelQuaternion' = MomentumQuaternion(t)
                                /\ timers'[t].radians # timers[t].radians) =>
          /\ 60 * (timers[t].radians - timers'[t].radians) = timers[t].radiansBegin
          /\ timers'[t].radians >= 0]_vars

(* Idle for good: no drag, rotationTimer null, the interval timer started  *)
(* last cleared, and no live interval timer's next tick writes the         *)
(* orientation.                                                            *)
MomentumOver ==
  /\ ~isDragging
  /\ rotationTimer = null
  /\ nextTimerId - 1 \notin DOMAIN timers
  /\ \A t \in DOMAIN timers : MomentumSpent(timers[t].radians)

(* C19: once an endDrag has started a momentum animation (rotationTimer    *)
(* is not null), if live timers keep firing, then eventually the           *)
(* controller is Idle (the timer cleared, rotationTimer null, no later     *)
(* tick writes the orientation), unless a beginDrag or stopDrag followed.  *)
C19_MomentumEnds ==
  (rotationTimer # null) ~>
     (MomentumOver \/ isDragging \/ lastOp \in {"beginDrag", "stopDrag"})

(* The one operation was an endDrag that started momentum, and its timer   *)
(* has fired until it cleared itself: the controller is Idle.              *)
C19_Witness ==
  /\ ops = 1
  /\ ticks = 62
  /\ nextTimerId = 2
  /\ MomentumOver
  /\ timers = << >>

(* C20: whenever a momentum animation is active (rotationTimer not null)  *)
(* the axis its ticks rotate about has length 1, and no step that leaves   *)
(* the animation running changes that axis.                                *)
C20_MomentumAxis ==
  [][rotationTimer # null =>
       /\ dot(axisOfRotation, axisOfRotation) = 1
       /\ rotationTimer' = rotationTimer => axisOfRotation' = axisOfRotation]_vars

(* C21: with the controller the only writer of the target, the            *)
(* controller's current orientation equals the target's orientation in     *)
(* every reachable state: after construction and after every beginDrag,    *)
(* updateDrag (accepted or skipped), endDrag, stopDrag, timer tick, nudge, *)
(* setRotationEuler and reshape.                                           *)
C21_CurrentIsTarget == quaternion = modelQuaternion

(* In a drag, an accepted updateDrag has rotated the target away from the  *)
(* snapshot and a skipped updateDrag has followed it: current orientation  *)
(* and target agree, and both differ from the snapshot.                    *)
C21_Witness ==
  /\ lastOp = "updateDragSkipped"
  /\ ops = 3
  /\ dragOnly
  /\ isDragging
  /\ modelQuaternion # qAtBeginDrag
  /\ quaternion = modelQuaternion
  /\ quaternion # quaternionTouchDown

====
